---------------------------- MODULE Spec2Model ----------------------------
(***************************************************************************)
(* RESTree (src/src/RESTree.js, the pipeline-and-header bearing variant,   *)
(* lines 15-448): a configuration tree of Node objects, compiled into a    *)
(* tree of ExecNode objects from which branches are created lazily.        *)
(*                                                                         *)
(* Strings are modelled as sequences of tokens.  A token that the regular  *)
(* expression paramRegex matches is one of the keys of paramRegex below;   *)
(* every other token is literal text.  Concatenation of strings is \o.     *)
(***************************************************************************)
EXTENDS Integers, Sequences, FiniteSets, TLC

VARIABLES
    nodes,      \* the Node objects, by identity 1..Len(nodes)
    execs,      \* the ExecNode objects created by compile
    api,        \* the value compile() returned
    branches,   \* the branch objects created by ExecNode.prototype.branch
    h,          \* the value each request-building sequence currently holds
    given,      \* history: the mapping each sequence passed to each callable
    out,        \* outcome of the last operation
    xhrs        \* the XMLHttpRequest objects created by request

vars == <<nodes, execs, api, branches, h, given, out, xhrs>>

----------------------------------------------------------------------------
(* Bounds of the model *)

MaxNodes == 3
MaxBranches == 3
MaxXhrs == 1
MaxPipes == 2
MaxHeaders == 2
MaxQuery == 2

Seqs == {"s1", "s2"}

Names == {"user", "images"}

\* The names add is called with: "node" is also the property in which every
\* ExecNode keeps its configuration (line 276).
TreeNames == Names \cup {"node"}

Methods == {"get", "post", "put", "delete"}

Lines == {"in", "out"}

Values == {"5", "7"}

----------------------------------------------------------------------------
(* JavaScript values *)

Null == [tag |-> "null", props |-> {}]

Undefined == [tag |-> "undefined", props |-> {}]

\* An object literal with own properties kv, a set of <<key, value>> pairs.
Obj(kv) == [tag |-> "obj", props |-> kv]

hasOwnProperty(data, key) == \E kv \in data.props : kv[1] = key

Prop(data, key) == (CHOOSE kv \in data.props : kv[1] = key)[2]

\* Every object literal whose keys are drawn from keys and values from Values.
Mappings(keys) ==
    UNION { { Obj({ <<k, f[k]>> : k \in dom }) : f \in [dom -> Values] }
            : dom \in SUBSET keys }

----------------------------------------------------------------------------
(* Node: the configuration tree *)

\* The placeholder tokens paramRegex matches, with the captured name.
paramRegex ==
    ("{id}" :> "id") @@ ("{a}" :> "a") @@ ("{b}" :> "b") @@ ("{v}" :> "v")

RECURSIVE extractParams(_)
extractParams(location) ==
    IF location = <<>> THEN <<>>
    ELSE (IF Head(location) \in DOMAIN paramRegex
             THEN <<paramRegex[Head(location)]>> ELSE <<>>)
         \o extractParams(Tail(location))

NoPipes == [m \in Methods |-> [l \in Lines |-> <<>>]]

Node(location, parent) ==
    [ location |-> location,
      parent   |-> parent,
      nodes    |-> <<>>,
      child    |-> [n \in TreeNames |-> 0],
      params   |-> extractParams(location),
      headers  |-> <<>>,
      pipes    |-> NoPipes ]

\* String.prototype.replace with the global paramRegex and a string value.
replace(location, value) ==
    [i \in DOMAIN location |->
        IF location[i] \in DOMAIN paramRegex THEN value ELSE location[i]]

Ok(v) == [err |-> "none", val |-> v]

Throw(e) == [err |-> e, val |-> <<>>]

RECURSIVE localLocationLoop(_, _, _, _)
localLocationLoop(node, data, i, location) ==
    IF i > Len(node.params) THEN Ok(location)
    ELSE IF data.tag # "obj" THEN Throw("TypeError")
    ELSE IF ~hasOwnProperty(data, node.params[i]) THEN Throw("MissingProperty")
    ELSE localLocationLoop(node, data, i + 1,
                           replace(location, Prop(data, node.params[i])))

localLocation(node, data) == localLocationLoop(node, data, 1, node.location)


\* The own properties the Node constructor sets (lines 34-57).
NodeOwn == {"location", "parent", "nodes", "params", "headers", "pipes"}

NodeHasOwn(node, name) ==
    \/ name \in NodeOwn
    \/ name \in TreeNames /\ node.child[name] # 0

\* Mutant of add: the name is registered without looking for it first.
addNoCheck(ns, p, name, location) ==
    LET loc == IF location = <<>> THEN <<name>> ELSE location
        id  == Len(ns) + 1
    IN  Ok(Append([ns EXCEPT ![p].child[name] = id,
                             ![p].nodes = Append(@, name)],
                  Node(loc, p)))

\* Node.prototype.add on ns[p]; location <<>> is an omitted (or empty) one.
add(ns, p, name, location) ==
    IF NodeHasOwn(ns[p], name) THEN [err |-> "DuplicateName", val |-> ns]
    ELSE LET loc == IF location = <<>> THEN <<name>> ELSE location
             id  == Len(ns) + 1
         IN  Ok(Append([ns EXCEPT ![p].child[name] = id,
                                  ![p].nodes = Append(@, name)],
                       Node(loc, p)))

\* Node.prototype.header: an object keeps its keys in insertion order.
header(hs, key, value) ==
    IF \E i \in DOMAIN hs : hs[i][1] = key
    THEN [i \in DOMAIN hs |-> IF hs[i][1] = key THEN <<key, value>> ELSE hs[i]]
    ELSE Append(hs, <<key, value>>)

\* Node.prototype.pipe on a node's pipes.
pipe(ps, method, line, pipes) ==
    IF method \notin Methods THEN [err |-> "UnknownMethod", val |-> ps]
    ELSE IF line \notin Lines THEN [err |-> "UnknownLine", val |-> ps]
    ELSE Ok([ps EXCEPT ![method][line] = @ \o pipes])

----------------------------------------------------------------------------
(* ExecNode: the compiled tree *)

\* nodeIs tells what the property 'node' holds: the Node the constructor
\* stored, or the ExecNode a later write stored under the same name.
ExecNode(node, parent) ==
    [node |-> node, nodeIs |-> "Node", parent |-> parent,
     child |-> [n \in Names |-> 0]]

\* parent[name] = exec (line 247): a plain property write on the ExecNode.
\* (No child is named "parent": add refuses the own properties of a Node.)
Register(es, parent, name, exec) ==
    IF name = "node"
    THEN [es EXCEPT ![parent].node = exec, ![parent].nodeIs = "ExecNode"]
    ELSE [es EXCEPT ![parent].child[name] = exec]

\* The entries compile pushes for the children of ns[n], compiled as exec e.
Entries(ns, n, e) ==
    [i \in DOMAIN ns[n].nodes |->
        <<ns[n].child[ns[n].nodes[i]], e, ns[n].nodes[i]>>]

\* The loop of compile (lines 233-264): queue is 'nodes', es the ExecNodes.
RECURSIVE compileLoop(_, _, _, _)
compileLoop(ns, es, queue, remaining) ==
    IF remaining = 0 THEN [execs |-> es, queue |-> queue]
    ELSE LET current == Head(queue)
             node    == current[1]
             parent  == current[2]
             name    == current[3]
             exec    == Len(es) + 1
             es2     == Append(Register(es, parent, name, exec),
                               ExecNode(node, parent))
         IN  compileLoop(ns, es2, Tail(queue) \o Entries(ns, node, exec),
                         remaining - 1 + Len(ns[node].nodes))

compile(ns, n) ==
    compileLoop(ns, <<ExecNode(n, 0)>>, Entries(ns, n, 1), Len(ns[n].nodes))

----------------------------------------------------------------------------
(* Branches *)

NoValue == [kind |-> "none", b |-> 0]

\* Mutant of Branch: the branch forgets the branch it was read from.
BranchNoLast(ns, es, e, last) ==
    [ proto   |-> e,
      last    |-> 0,
      args    |-> Null,
      getters |-> ns[es[e].node].nodes ]

\* The object ExecNode.prototype.branch creates on exec e of es.
Branch(ns, es, e, last) ==
    [ proto   |-> e,
      last    |-> last,
      args    |-> Null,
      getters |-> ns[es[e].node].nodes ]

\* this.node.params.length (line 293) on exec e: an ExecNode has no params,
\* so the read throws when 'node' holds one.
branchThrows(es, e) == es[e].nodeIs # "Node"

\* What ExecNode.prototype.branch returns for the branch it stored as b.
branch(ns, es, e, b) ==
    IF Len(ns[es[e].node].params) # 0
    THEN [kind |-> "caller", b |-> b]
    ELSE [kind |-> "branch", b |-> b]

\* The exec whose branch the getter of lazyFetch(name) creates when read on
\* branch b: this.__proto__[name]; 0 stands for undefined.
lazyFetch(es, bs, b, name) == es[bs[b].proto].child[name]

\* The Node a branch reads as this.node.
NodeOf(ns, es, bs, b) == ns[es[bs[b].proto].node]

\* Mutant of mountLoop: each ancestor's local location is appended.
RECURSIVE mountLoopAppend(_, _, _, _, _)
mountLoopAppend(ns, es, bs, current, url) ==
    IF current = 0 THEN Ok(url)
    ELSE LET r == localLocation(ns[es[bs[current].proto].node],
                                bs[current].args)
         IN  IF r.err # "none" THEN r
             ELSE mountLoopAppend(ns, es, bs, bs[current].last,
                                  url \o <<"/">> \o r.val)

\* The loop of mount (lines 344-345): prepend each ancestor's local location.
RECURSIVE mountLoop(_, _, _, _, _)
mountLoop(ns, es, bs, current, url) ==
    IF current = 0 THEN Ok(url)
    ELSE LET r == localLocation(NodeOf(ns, es, bs, current), bs[current].args)
         IN  IF r.err # "none" THEN r
             ELSE mountLoop(ns, es, bs, bs[current].last,
                            r.val \o <<"/">> \o url)

encodeURIComponent(v) == IF v = "a b" THEN "a%20b" ELSE v

\* Array.prototype.shift on the keys of an object: undefined when empty.
Shift(keys) == IF keys = <<>> THEN "undefined" ELSE Head(keys)[1]

ShiftVal(keys) == IF keys = <<>> THEN "undefined" ELSE Head(keys)[2]

Rest(keys) == IF keys = <<>> THEN <<>> ELSE Tail(keys)

\* The while loop of mount (lines 353-354); an empty key is falsy.
RECURSIVE queryLoop(_, _)
queryLoop(keys, url) ==
    IF keys = <<>> \/ Head(keys)[1] = "" THEN url
    ELSE queryLoop(Tail(keys),
                   url \o <<"&", Head(keys)[1], "=",
                            encodeURIComponent(Head(keys)[2])>>)

\* A query object: its <<key, value>> pairs in the order Object.keys gives.
Query(kvs) == [tag |-> "obj", keys |-> kvs]

\* urlParams is Null, Undefined or a Query.
mount(ns, es, bs, b, urlParams) ==
    LET own == localLocation(NodeOf(ns, es, bs, b), bs[b].args)
    IN  IF own.err # "none" THEN own
        ELSE LET r == mountLoop(ns, es, bs, bs[b].last, own.val)
             IN  IF r.err # "none" \/ urlParams.tag # "obj" THEN r
                 ELSE Ok(queryLoop(Rest(urlParams.keys),
                            r.val \o <<"?", Shift(urlParams.keys), "=",
                                 encodeURIComponent(ShiftVal(urlParams.keys))>>))


----------------------------------------------------------------------------
(* The state machine: configuration, compile, request-building sequences *)

\* The domains RESTree(domain) is called with.
RootLocations == { <<"api">>, <<"api", "/", "{v}">> }

\* The location add is called with for each name; <<>> is an omitted one.
LocationFor(name) ==
    IF name = "user" THEN <<"user", "/", "{id}">> ELSE <<>>

NoOut == [op |-> "init", s |-> "none", b |-> 0, from |-> 0,
          err |-> "none", url |-> <<>>, arg |-> Null]

Compiled == api.kind # "none"

Init ==
    /\ nodes \in { <<Node(loc, 0)>> : loc \in RootLocations }
    /\ execs = <<>>
    /\ api = NoValue
    /\ branches = <<>>
    /\ h = [s \in Seqs |-> NoValue]
    /\ given = [s \in Seqs |-> [b \in 1..MaxBranches |-> Null]]
    /\ out = NoOut
    /\ xhrs = <<>>

\* node.add(name, location)
Add(p, name) ==
    /\ p \in DOMAIN nodes
    /\ LET r == add(nodes, p, name, LocationFor(name))
       IN  /\ r.err = "none" => Len(nodes) < MaxNodes
           /\ nodes' = r.val
           /\ out' = [NoOut EXCEPT !.op = "add", !.b = p, !.err = r.err,
                                   !.arg = name]
    /\ UNCHANGED <<execs, api, branches, h, given, xhrs>>

\* node.compile(): the whole tree, then the root's first branch.  The model
\* follows one compiled tree: compile is called once.
Compile(n) ==
    /\ n \in DOMAIN nodes
    /\ ~Compiled
    /\ IF nodes[n].parent # 0
       THEN /\ out' = [NoOut EXCEPT !.op = "compile", !.err = "InvalidRoot"]
            /\ UNCHANGED <<execs, api, branches>>
       ELSE LET r  == compile(nodes, n)
                es == r.execs
            IN  IF branchThrows(es, 1)
                THEN /\ out' = [NoOut EXCEPT !.op = "compile",
                                             !.err = "TypeError",
                                             !.arg = r.queue]
                     /\ UNCHANGED <<execs, api, branches>>
                ELSE /\ execs' = es
                     /\ branches' = <<Branch(nodes, es, 1, 0)>>
                     /\ api' = branch(nodes, es, 1, 1)
                     /\ out' = [NoOut EXCEPT !.op = "compile", !.b = 1,
                                             !.arg = r.queue]
    /\ UNCHANGED <<nodes, h, given, xhrs>>

\* A sequence starts from the value compile returned.
Start(s) ==
    /\ Compiled
    /\ h[s].kind = "none"
    /\ h' = [h EXCEPT ![s] = api]
    /\ out' = [NoOut EXCEPT !.op = "start", !.s = s, !.b = api.b]
    /\ UNCHANGED <<nodes, execs, api, branches, given, xhrs>>

\* The mappings a callable of node is invoked with; Undefined is no argument.
ArgsFor(node) ==
    Mappings({ node.params[i] : i \in DOMAIN node.params }) \cup {Undefined}

\* Mutant of caller: args reaches every branch of the same ExecNode.
callerShared(bs, b, args) ==
    [i \in DOMAIN bs |->
        IF bs[i].proto = bs[b].proto THEN [bs[i] EXCEPT !.args = args]
        ELSE bs[i]]

\* The function bound to branch b (lines 294-298): this.args = args.
caller(bs, b, args) == [bs EXCEPT ![b].args = args]

\* caller(args): stores args on the bound branch and returns the branch.
Call(s, args) ==
    /\ h[s].kind = "caller"
    /\ args \in ArgsFor(NodeOf(nodes, execs, branches, h[s].b))
    /\ branches' = caller(branches, h[s].b, args)
    /\ h' = [h EXCEPT ![s].kind = "branch"]
    /\ given' = [given EXCEPT ![s][h[s].b] = args]
    /\ out' = [NoOut EXCEPT !.op = "call", !.s = s, !.b = h[s].b,
                            !.arg = args]
    /\ UNCHANGED <<nodes, execs, api, xhrs>>

\* branch[name]: the getter lazyFetch(name) defined on the branch.
Access(s, name) ==
    /\ h[s].kind = "branch"
    /\ \E i \in DOMAIN branches[h[s].b].getters :
            branches[h[s].b].getters[i] = name
    /\ LET e  == lazyFetch(execs, branches, h[s].b, name)
           nb == Len(branches) + 1
       IN  IF e = 0 \/ branchThrows(execs, e)
           THEN /\ out' = [NoOut EXCEPT !.op = "access", !.s = s,
                                        !.from = h[s].b, !.err = "TypeError"]
                /\ h' = [h EXCEPT ![s] = NoValue]
                /\ UNCHANGED branches
           ELSE /\ Len(branches) < MaxBranches
                /\ branches' = Append(branches,
                                      Branch(nodes, execs, e, h[s].b))
                /\ h' = [h EXCEPT ![s] = branch(nodes, execs, e, nb)]
                /\ out' = [NoOut EXCEPT !.op = "access", !.s = s, !.b = nb,
                                        !.from = h[s].b]
    /\ UNCHANGED <<nodes, execs, api, given, xhrs>>

\* value.mount(): on a callable that was never invoked mount is undefined.
Mount(s) ==
    /\ h[s].kind # "none"
    /\ LET r == IF h[s].kind = "caller" THEN Throw("TypeError")
                ELSE mount(nodes, execs, branches, h[s].b, Undefined)
       IN  out' = [NoOut EXCEPT !.op = "mount", !.s = s, !.b = h[s].b,
                                !.err = r.err, !.url = r.val]
    /\ UNCHANGED <<nodes, execs, api, branches, h, given, xhrs>>

\* The tree is configured, then compiled, then used (README, "Getting and
\* posting data": no endpoint is added once compile has been called).
Next ==
    \/ \E p \in 1..MaxNodes, name \in Names : ~Compiled /\ Add(p, name)
    \/ \E n \in 1..MaxNodes : Compile(n)
    \/ \E s \in Seqs : Start(s)
    \/ \E s \in Seqs, args \in Mappings({"id", "v"}) \cup {Undefined} :
            Call(s, args)
    \/ \E s \in Seqs, name \in Names : Access(s, name)
    \/ \E s \in Seqs : Mount(s)

Spec == Init /\ [][Next]_vars


----------------------------------------------------------------------------
(* Properties of request-building sequences *)

\* The branches from the root branch to b, following last.
RECURSIVE ChainOf(_, _)
ChainOf(bs, b) ==
    IF b = 0 THEN <<>> ELSE Append(ChainOf(bs, bs[b].last), b)

\* The branches with args replaced, outside keep, by what s passed itself.
WithGiven(s, keep) ==
    [b \in DOMAIN branches |->
        IF b \in keep THEN branches[b]
        ELSE [branches[b] EXCEPT !.args = given[s][b]]]

MountedBy(s) == out.op = "mount" /\ out.s = s /\ h[s].kind = "branch"

\* C1: a mount uses, for every node of its chain, the root branch included,
\* exactly the mapping its own sequence supplied for that node: its outcome
\* is the one computed from the mappings the sequence itself passed.
C1_OwnArguments ==
    \A s \in Seqs :
        MountedBy(s) =>
            [err |-> out.err, val |-> out.url]
                = mount(nodes, execs, WithGiven(s, {}), out.b, Undefined)

\* The step is caller(args) on branch b by the sequence holding b's callable.
IsCallOn(b) ==
    /\ out'.op = "call"
    /\ out'.b = b
    /\ h[out'.s] = [kind |-> "caller", b |-> b]

C2_Step ==
    /\ (out'.op = "access" /\ out'.err = "none") =>
            /\ out'.b \notin DOMAIN branches
            /\ out'.b \in DOMAIN branches'
            /\ branches'[out'.b].last = h[out'.s].b
            /\ branches'[out'.b].args = Null
            /\ \A b \in DOMAIN branches : branches'[b] = branches[b]
    /\ \A b \in DOMAIN branches :
            (b \in DOMAIN branches' /\ branches'[b].args # branches[b].args)
                => IsCallOn(b)

C2_Urls ==
    \A s \in Seqs :
        MountedBy(s) =>
            [err |-> out.err, val |-> out.url]
                = mount(nodes, execs, WithGiven(s, {api.b}), out.b, Undefined)

\* C2: every read of a child accessor creates a new branch whose last is the
\* branch read and whose args are unset; only a branch's own callable changes
\* its args; and a child branch mounts with the mapping passed to it, whatever
\* was passed to another branch of the same child.
C2_FreshBranches == []C2_Urls /\ [][C2_Step]_vars

\* Two branches of the same child read on the same parent branch hold
\* different mappings and one of them has been mounted.
C2_Witness ==
    \E b1, b2 \in DOMAIN branches :
        /\ b1 # b2
        /\ branches[b1].proto = branches[b2].proto
        /\ branches[b1].last = branches[b2].last
        /\ branches[b1].last # 0
        /\ branches[b1].args.tag = "obj" /\ branches[b2].args.tag = "obj"
        /\ branches[b1].args # branches[b2].args
        /\ out.op = "mount" /\ out.err = "none" /\ out.b = b1

Segment(b) ==
    localLocation(NodeOf(nodes, execs, branches, b), branches[b].args).val

\* seg1/seg2/.../segn, left to right.
RECURSIVE JoinSegs(_)
JoinSegs(segs) ==
    IF Len(segs) = 1 THEN segs[1]
    ELSE segs[1] \o <<"/">> \o JoinSegs(Tail(segs))

\* C3: mount() without a query returns the local locations of the branches
\* of the chain, root first, one per branch, joined by one "/".
C3_RootFirst ==
    (out.op = "mount" /\ out.err = "none") =>
        LET chain == ChainOf(branches, out.b)
        IN  out.url = JoinSegs([i \in DOMAIN chain |-> Segment(chain[i])])

\* api/5/user/7/images was mounted on a chain of three branches.
C3_Witness ==
    /\ out.op = "mount" /\ out.err = "none"
    /\ Len(ChainOf(branches, out.b)) = 3
    /\ out.url = <<"api", "/", "5", "/", "user", "/", "7", "/", "images">>

\* A node of the chain of b declares a parameter its args do not hold.
LacksParameter(b) ==
    \E i \in DOMAIN ChainOf(branches, b) :
        LET c == ChainOf(branches, b)[i]
            node == NodeOf(nodes, execs, branches, c)
        IN  \E j \in DOMAIN node.params :
                ~hasOwnProperty(branches[c].args, node.params[j])

\* C5: mount raises the missing-parameter error whenever a node of the chain
\* declares a placeholder that is no key of the arguments supplied for it,
\* also when the callable was invoked without a mapping; it returns no URL
\* and no request is opened.
C5_MissingParameter ==
    (out.op = "mount" /\ h[out.s].kind = "branch" /\ LacksParameter(out.b)) =>
        /\ out.err = "MissingProperty"
        /\ out.url = <<>>
        /\ xhrs = <<>>


----------------------------------------------------------------------------
(* localLocation on its own: one node, every template, every mapping *)

Templates ==
    { <<"x">>, <<"{a}">>, <<"x", "/", "{a}">>, <<"{a}", "/", "{a}">>,
      <<"{a}", "/", "{b}">>, <<"{b}", "-", "{a}">>, <<"{a}", "{b}">>,
      <<"{b}", "/", "x", "/", "{a}">>, <<"{a}", "/", "{b}", "/", "{a}">> }

InitLoc ==
    /\ nodes \in { <<Node(loc, 0)>> : loc \in Templates }
    /\ execs = <<>>
    /\ api = NoValue
    /\ branches = <<>>
    /\ h = [s \in Seqs |-> NoValue]
    /\ given = [s \in Seqs |-> [b \in 1..MaxBranches |-> Null]]
    /\ out = NoOut
    /\ xhrs = <<>>

\* node.localLocation(data)
LocalLocation(n, data) ==
    /\ n \in DOMAIN nodes
    /\ LET r == localLocation(nodes[n], data)
       IN  out' = [NoOut EXCEPT !.op = "localLocation", !.b = n,
                                !.arg = data, !.err = r.err, !.url = r.val]
    /\ UNCHANGED <<nodes, execs, api, branches, h, given, xhrs>>

NextLoc ==
    \E data \in Mappings({"a", "b"}) \cup {Null, Undefined} :
        LocalLocation(1, data)

SpecLoc == InitLoc /\ [][NextLoc]_vars

\* The template with every placeholder replaced by the value data holds
\* under the placeholder's own name.
EachByOwnName(location, data) ==
    [i \in DOMAIN location |->
        IF location[i] \in DOMAIN paramRegex
        THEN Prop(data, paramRegex[location[i]])
        ELSE location[i]]

SuppliesAll(node, data) ==
    \A i \in DOMAIN node.params : hasOwnProperty(data, node.params[i])

\* C4: for a mapping supplying every placeholder of the template,
\* localLocation returns the template with each placeholder replaced by the
\* value supplied under that placeholder's own name, and leaves the node's
\* template and parameter list as they were.
C4_EachPlaceholderOwnValue ==
    (out.op = "localLocation" /\ SuppliesAll(nodes[out.b], out.arg)) =>
        /\ out.err = "none"
        /\ out.url = EachByOwnName(nodes[out.b].location, out.arg)
        /\ nodes[out.b].location \in Templates
        /\ nodes[out.b].params = extractParams(nodes[out.b].location)


----------------------------------------------------------------------------
(* Requests *)

\* The values a body or a parsed response takes: undefined, null, the empty
\* string and 0 are falsy, an object is truthy.  t lists the transforms the
\* value went through.
Data(v) == [v |-> v, t |-> <<>>]

Truthy(d) == d.v = "obj"

\* A transform is an opaque caller-supplied function: it leaves its mark.
Apply(T, d) == [d EXCEPT !.t = Append(@, T)]

\* Mutant of executePipesLoop: the pipeline is walked from its last transform.
RECURSIVE executePipesLoopReversed(_, _, _, _)
executePipesLoopReversed(pipes, i, data, calls) ==
    IF i > Len(pipes) THEN [data |-> data, calls |-> calls]
    ELSE LET T == pipes[Len(pipes) + 1 - i]
         IN  executePipesLoopReversed(pipes, i + 1, Apply(T, data),
                                      Append(calls, <<T, data>>))

\* The loop of executePipes (lines 418-420); calls lists each invocation as
\* <<transform, its argument>>.
RECURSIVE executePipesLoop(_, _, _, _)
executePipesLoop(pipes, i, data, calls) ==
    IF i > Len(pipes) THEN [data |-> data, calls |-> calls]
    ELSE executePipesLoop(pipes, i + 1, Apply(pipes[i], data),
                          Append(calls, <<pipes[i], data>>))

executePipes(pipes, data) ==
    IF ~Truthy(data) THEN [data |-> Data("undefined"), calls |-> <<>>]
    ELSE executePipesLoop(pipes, 1, data, <<>>)

\* Mutant of loadHeadersCollect: the chain is collected leaf first (push).
RECURSIVE loadHeadersCollectPush(_, _, _)
loadHeadersCollectPush(ns, node, acc) ==
    IF node = 0 THEN acc
    ELSE loadHeadersCollectPush(ns, ns[node].parent, acc \o <<node>>)

\* The first loop of loadHeaders (lines 144-147): unshift up to the root.
RECURSIVE loadHeadersCollect(_, _, _)
loadHeadersCollect(ns, node, acc) ==
    IF node = 0 THEN acc
    ELSE loadHeadersCollect(ns, ns[node].parent, <<node>> \o acc)

\* The second loop of loadHeaders (lines 149-153): the setRequestHeader calls.
RECURSIVE loadHeadersWrite(_, _, _)
loadHeadersWrite(ns, chain, written) ==
    IF chain = <<>> THEN written
    ELSE loadHeadersWrite(ns, Tail(chain), written \o ns[Head(chain)].headers)

loadHeaders(ns, node, written) ==
    loadHeadersWrite(ns, loadHeadersCollect(ns, node, <<>>), written)

ContentType == <<"Content-type", "application/json">>

\* ExecNode.prototype.request on branch b: the error it throws, or the
\* XMLHttpRequest it has sent.
request(ns, es, bs, b, method, query, data, success, fail) ==
    LET u == mount(ns, es, bs, b, query)
        n == es[bs[b].proto].node
    IN  IF u.err # "none" THEN [err |-> u.err, xhr |-> <<>>]
        ELSE IF method \notin Methods THEN [err |-> "TypeError", xhr |-> <<>>]
        ELSE LET p == executePipes(ns[n].pipes[method].out, data)
             IN  [ err |-> "none",
                   xhr |-> << [ node     |-> n,
                                method   |-> method,
                                url      |-> u.val,
                                headers  |-> loadHeaders(ns, n, <<ContentType>>),
                                given    |-> data,
                                body     |-> p.data,
                                outCalls |-> p.calls,
                                success  |-> success,
                                fail     |-> fail,
                                state    |-> "sent",
                                status   |-> 0,
                                text     |-> "",
                                parsed   |-> Data("undefined"),
                                inCalls  |-> <<>>,
                                cbs      |-> <<>>,
                                thrown   |-> "none" ] >> ]

\* The request's inputs, as the caller passes them.
Props(query, body, success, fail) ==
    [query |-> query, body |-> body, success |-> success, fail |-> fail]

\* value.request(method, query, data, success, fail)
Request(s, method, props) ==
    /\ h[s].kind # "none"
    /\ LET r == IF h[s].kind = "caller" THEN [err |-> "TypeError", xhr |-> <<>>]
                ELSE request(nodes, execs, branches, h[s].b, method,
                             props.query, props.body, props.success, props.fail)
       IN  /\ r.err = "none" => Len(xhrs) < MaxXhrs
           /\ xhrs' = xhrs \o r.xhr
           /\ out' = [NoOut EXCEPT !.op = "request", !.s = s, !.b = h[s].b,
                          !.err = r.err, !.arg = [method |-> method, props |-> props],
                          !.url = IF r.err = "none" THEN r.xhr[1].url ELSE <<>>]
    /\ UNCHANGED <<nodes, execs, api, branches, h, given>>

TotalHeaders(ns) ==
    LET RECURSIVE Sum(_)
        Sum(i) == IF i = 0 THEN 0 ELSE Len(ns[i].headers) + Sum(i - 1)
    IN  Sum(Len(ns))

\* node.header(key, value)
Header(n, key, value) ==
    /\ n \in DOMAIN nodes
    /\ \/ \E i \in DOMAIN nodes[n].headers : nodes[n].headers[i][1] = key
       \/ TotalHeaders(nodes) < MaxHeaders
    /\ nodes' = [nodes EXCEPT ![n].headers = header(@, key, value)]
    /\ out' = [NoOut EXCEPT !.op = "header", !.b = n]
    /\ UNCHANGED <<execs, api, branches, h, given, xhrs>>

----------------------------------------------------------------------------
(* Headers: the tree api -> user/{id} -> images, compiled *)

Built(r) == r.val

ChainTree ==
    Built(add(Built(add(<<Node(<<"api">>, 0)>>, 1, "user", LocationFor("user"))),
              2, "images", LocationFor("images")))

HeaderKeys == {"Authorization", "Content-type"}

HeaderValues == {"h1", "h2"}

InitHdr ==
    /\ nodes = ChainTree
    /\ execs = compile(nodes, 1).execs
    /\ branches = <<Branch(nodes, execs, 1, 0)>>
    /\ api = branch(nodes, execs, 1, 1)
    /\ h = [s \in Seqs |-> NoValue]
    /\ given = [s \in Seqs |-> [b \in 1..MaxBranches |-> Null]]
    /\ out = NoOut
    /\ xhrs = <<>>

PlainGet == Props(Null, Data("undefined"), TRUE, TRUE)

\* Headers are configured before the first request is issued.
NextHdr ==
    \/ \E n \in 1..MaxNodes, key \in HeaderKeys, value \in HeaderValues :
            xhrs = <<>> /\ Header(n, key, value)
    \/ Start("s1")
    \/ \E args \in Mappings({"id"}) \cup {Undefined} : Call("s1", args)
    \/ \E name \in Names : Access("s1", name)
    \/ Request("s1", "get", PlainGet)

SpecHdr == InitHdr /\ [][NextHdr]_vars

\* The headers of the configuration chain, from the root down to node n.
RECURSIVE RootDown(_, _)
RootDown(ns, n) ==
    IF n = 0 THEN <<>> ELSE RootDown(ns, ns[n].parent) \o ns[n].headers

\* The value the node closest to n (n itself first) sets for key, if any.
RECURSIVE Closest(_, _, _)
Closest(ns, n, key) ==
    IF n = 0 THEN "unset"
    ELSE IF \E i \in DOMAIN ns[n].headers : ns[n].headers[i][1] = key
         THEN (CHOOSE kv \in { ns[n].headers[i] : i \in DOMAIN ns[n].headers } :
                    kv[1] = key)[2]
         ELSE Closest(ns, ns[n].parent, key)

LastWritten(written, key) ==
    LET is == { i \in DOMAIN written : written[i][1] = key }
    IN  written[CHOOSE i \in is : \A j \in is : j <= i][2]

\* C9: a request writes the JSON content-type header, then the headers of
\* every configuration ancestor from the root down to the requesting node;
\* for a key set on several nodes the value written last is the one of the
\* node closest to the requesting node.
C9_HeadersRootDown ==
    (out.op = "request" /\ out.err = "none") =>
        LET x == xhrs[Len(xhrs)]
        IN  /\ x.headers = <<ContentType>> \o RootDown(nodes, x.node)
            /\ \A key \in HeaderKeys :
                    Closest(nodes, x.node, key) # "unset" =>
                        LastWritten(x.headers, key)
                            = Closest(nodes, x.node, key)

\* A request from the doubly nested node wrote a root header and a header
\* the root and a nearer node both set.
C9_Witness ==
    /\ out.op = "request" /\ out.err = "none"
    /\ LET x == xhrs[Len(xhrs)]
       IN  /\ nodes[x.node].parent # 0
           /\ nodes[nodes[x.node].parent].parent = 1
           /\ Len(x.headers) = 3
           /\ x.headers[2][1] = x.headers[3][1]
           /\ x.headers[2][2] # x.headers[3][2]
           /\ x.headers[2] = nodes[1].headers[1]


----------------------------------------------------------------------------
(* Pipelines: the tree api -> images, compiled *)

LeafTree == Built(add(<<Node(<<"api">>, 0)>>, 1, "images", LocationFor("images")))

InitPipe ==
    /\ nodes = LeafTree
    /\ execs = compile(nodes, 1).execs
    /\ branches = <<Branch(nodes, execs, 1, 0)>>
    /\ api = branch(nodes, execs, 1, 1)
    /\ h = [s \in Seqs |-> NoValue]
    /\ given = [s \in Seqs |-> [b \in 1..MaxBranches |-> Null]]
    /\ out = NoOut
    /\ xhrs = <<>>

\* The number of transforms registered on the nodes of ns.
TotalPipes(ns) ==
    LET RECURSIVE Sum(_)
        Sum(i) == IF i = 0 THEN 0
                  ELSE Len(ns[i].pipes["get"]["in"]) + Len(ns[i].pipes["get"]["out"])
                     + Len(ns[i].pipes["post"]["in"]) + Len(ns[i].pipes["post"]["out"])
                     + Len(ns[i].pipes["put"]["in"]) + Len(ns[i].pipes["put"]["out"])
                     + Len(ns[i].pipes["delete"]["in"]) + Len(ns[i].pipes["delete"]["out"])
                     + Sum(i - 1)
    IN  Sum(Len(ns))

\* History: the pipeline a registration finds, <<>> for one that does not exist.
Before(n, method, line) ==
    IF method \in Methods /\ line \in Lines
    THEN nodes[n].pipes[method][line] ELSE <<>>

\* node.pipe(method, line, pipes)
Pipe(n, method, line, pipes) ==
    /\ n \in DOMAIN nodes
    /\ LET r == pipe(nodes[n].pipes, method, line, pipes)
       IN  /\ r.err = "none" => TotalPipes(nodes) + Len(pipes) <= MaxPipes
           /\ nodes' = [nodes EXCEPT ![n].pipes = r.val]
           /\ out' = [NoOut EXCEPT !.op = "pipe", !.b = n, !.err = r.err,
                          !.arg = [method |-> method, line |-> line,
                                   pipes |-> pipes,
                                   before |-> Before(n, method, line)]]
    /\ UNCHANGED <<execs, api, branches, h, given, xhrs>>

\* node.in(method, ...pipes): collects its arguments after the first and
\* calls pipe with line 'in'.
In(n, method, pipes) ==
    /\ n \in DOMAIN nodes
    /\ LET r == pipe(nodes[n].pipes, method, "in", pipes)
       IN  /\ r.err = "none" => TotalPipes(nodes) + Len(pipes) <= MaxPipes
           /\ nodes' = [nodes EXCEPT ![n].pipes = r.val]
           /\ out' = [NoOut EXCEPT !.op = "in", !.b = n, !.err = r.err,
                          !.arg = [method |-> method, line |-> "in",
                                   pipes |-> pipes,
                                   before |-> Before(n, method, "in")]]
    /\ UNCHANGED <<execs, api, branches, h, given, xhrs>>

\* node.out(method, ...pipes): the same with line 'out'.
Out(n, method, pipes) ==
    /\ n \in DOMAIN nodes
    /\ LET r == pipe(nodes[n].pipes, method, "out", pipes)
       IN  /\ r.err = "none" => TotalPipes(nodes) + Len(pipes) <= MaxPipes
           /\ nodes' = [nodes EXCEPT ![n].pipes = r.val]
           /\ out' = [NoOut EXCEPT !.op = "out", !.b = n, !.err = r.err,
                          !.arg = [method |-> method, line |-> "out",
                                   pipes |-> pipes,
                                   before |-> Before(n, method, "out")]]
    /\ UNCHANGED <<execs, api, branches, h, given, xhrs>>

\* The lists of transforms one registration passes.
PipeLists == { <<"T1">>, <<"T2">>, <<"T1", "T2">>, <<"T2", "T1">> }

\* The bodies a request is given.
Bodies == { Data("undefined"), Data("zero"), Data("obj") }

\* Pipelines are configured before the first request is issued.
NextPipe ==
    \/ \E n \in 1..MaxNodes, method \in {"get", "patch"},
          line \in {"in", "out", "error"}, pipes \in PipeLists :
            xhrs = <<>> /\ Pipe(n, method, line, pipes)
    \/ \E n \in 1..MaxNodes, method \in {"get", "patch"}, pipes \in PipeLists :
            xhrs = <<>> /\ In(n, method, pipes)
    \/ \E n \in 1..MaxNodes, method \in {"get", "patch"}, pipes \in PipeLists :
            xhrs = <<>> /\ Out(n, method, pipes)
    \/ Start("s1")
    \/ \E name \in Names : Access("s1", name)
    \/ \E method \in {"get", "post"}, body \in Bodies :
            Request("s1", method, Props(Null, body, TRUE, TRUE))

SpecPipe == InitPipe /\ [][NextPipe]_vars

\* The value d after the first k transforms of pipeline p.
After(p, d, k) == [d EXCEPT !.t = @ \o SubSeq(p, 1, k)]

\* Running pipeline p on d invoked each transform once, in order, each on the
\* previous one's output, and gave res; on a falsy d it invoked none and gave
\* undefined.
RanInOrder(p, d, calls, res) ==
    IF Truthy(d)
    THEN /\ calls = [k \in DOMAIN p |-> <<p[k], After(p, d, k - 1)>>]
         /\ res = After(p, d, Len(p))
    ELSE /\ calls = <<>>
         /\ res = Data("undefined")

----------------------------------------------------------------------------
(* Responses and shorthands: api -> images with in('get', T1, T2), compiled *)

\* The response texts the transport delivers: no body, a body that is no
\* JSON, and the JSON texts of an object, of null and of 0.
ResponseTexts == {"", "<html>", "{k:1}", "null", "0"}

\* JSON.parse: throws a SyntaxError on a text that is no JSON.
JSONparse(text) ==
    CASE text = "{k:1}" -> Ok(Data("obj"))
      [] text = "null"  -> Ok(Data("null"))
      [] text = "0"     -> Ok(Data("zero"))
      [] OTHER          -> [err |-> "SyntaxError", val |-> Data("undefined")]

Statuses == {199, 200, 299, 300, 404}

Callback(name, status, data) == [name |-> name, status |-> status, data |-> data]

\* handleResponse(node, event, method, success, fail) for xhr x, run by the
\* load listener request registered.
handleResponse(ns, x, status, text) ==
    LET parse == JSONparse(text)
        got   == [x EXCEPT !.state = "loaded", !.status = status, !.text = text]
    IN  IF parse.err # "none" THEN [got EXCEPT !.thrown = parse.err]
        ELSE IF status >= 200 /\ status < 300
        THEN LET p == executePipes(ns[x.node].pipes[x.method]["in"], parse.val)
             IN  [got EXCEPT !.parsed = parse.val,
                             !.inCalls = p.calls,
                             !.cbs = IF x.success
                                     THEN <<Callback("success", status, p.data)>>
                                     ELSE <<>>]
        ELSE [got EXCEPT !.parsed = parse.val,
                         !.cbs = IF x.fail
                                 THEN <<Callback("fail", status, parse.val)>>
                                 ELSE <<>>]

\* The transport fires "load" on xhr i.
Load(i, status, text) ==
    /\ i \in DOMAIN xhrs
    /\ xhrs[i].state = "sent"
    /\ xhrs' = [xhrs EXCEPT ![i] = handleResponse(nodes, @, status, text)]
    /\ out' = [NoOut EXCEPT !.op = "load", !.b = i, !.err = xhrs'[i].thrown]
    /\ UNCHANGED <<nodes, execs, api, branches, h, given>>

\* The transport fires "error" on xhr i: request registered no listener
\* for it (lines 377-379).
TransportError(i) ==
    /\ i \in DOMAIN xhrs
    /\ xhrs[i].state = "sent"
    /\ xhrs' = [xhrs EXCEPT ![i].state = "errored"]
    /\ out' = [NoOut EXCEPT !.op = "error", !.b = i]
    /\ UNCHANGED <<nodes, execs, api, branches, h, given>>

\* branch.get(properties) (lines 426-428)
Get(s, properties) ==
    /\ h[s].kind = "branch"
    /\ LET r == request(nodes, execs, branches, h[s].b, "get",
                        properties.query, properties.body,
                        properties.success, properties.fail)
       IN  /\ r.err = "none" => Len(xhrs) < MaxXhrs
           /\ xhrs' = xhrs \o r.xhr
           /\ out' = [NoOut EXCEPT !.op = "get", !.s = s, !.b = h[s].b,
                          !.err = r.err, !.arg = properties,
                          !.url = IF r.err = "none" THEN r.xhr[1].url ELSE <<>>]
    /\ UNCHANGED <<nodes, execs, api, branches, h, given>>

\* What post, put and delete do (lines 431-443): their parameters are named
\* urlParams, data, success, fail and the body reads the undeclared
\* identifier 'properties', which throws before request is called.
sugar(method, urlParams, data, success, fail) ==
    [err |-> "ReferenceError", xhr |-> <<>>]

Sugar(s, method, urlParams) ==
    /\ h[s].kind = "branch"
    /\ LET r == sugar(method, urlParams, Undefined, Undefined, Undefined)
       IN  /\ xhrs' = xhrs \o r.xhr
           /\ out' = [NoOut EXCEPT !.op = method, !.s = s, !.b = h[s].b,
                          !.err = r.err, !.arg = urlParams]
    /\ UNCHANGED <<nodes, execs, api, branches, h, given>>

\* branch.post(properties)
Post(s, properties) == Sugar(s, "post", properties)

\* branch.put(properties)
Put(s, properties) == Sugar(s, "put", properties)

\* branch.delete(properties)
Delete(s, properties) == Sugar(s, "delete", properties)

InitResp ==
    /\ nodes = [LeafTree EXCEPT
                    ![2].pipes = Built(pipe(@, "get", "in", <<"T1", "T2">>))]
    /\ execs = compile(nodes, 1).execs
    /\ branches = <<Branch(nodes, execs, 1, 0)>>
    /\ api = branch(nodes, execs, 1, 1)
    /\ h = [s \in Seqs |-> NoValue]
    /\ given = [s \in Seqs |-> [b \in 1..MaxBranches |-> Null]]
    /\ out = NoOut
    /\ xhrs = <<>>

\* The properties objects the shorthands and request are given.
PropsSet ==
    { Props(Null, Data("obj"), success, fail) : success, fail \in BOOLEAN }

NextResp ==
    \/ Start("s1")
    \/ \E name \in Names : Access("s1", name)
    \/ \E props \in PropsSet : Request("s1", "get", props)
    \/ \E props \in PropsSet : Get("s1", props)
    \/ \E props \in PropsSet : Post("s1", props)
    \/ \E props \in PropsSet : Put("s1", props)
    \/ \E props \in PropsSet : Delete("s1", props)
    \/ \E i \in 1..MaxXhrs, status \in Statuses, text \in ResponseTexts :
            Load(i, status, text)
    \/ \E i \in 1..MaxXhrs : TransportError(i)

SpecResp == InitResp /\ [][NextResp]_vars

\* The parsed body, or undefined when the response has none that parses.
ParsedOrUndefined(text) == JSONparse(text).val

\* C6: when the response of a request (made with both callbacks) is loaded,
\* exactly one callback is invoked, exactly once: success(status, d) for a
\* status in 200..299, d being the incoming pipeline of the requesting node
\* and method applied to the parsed body; fail(status, parsed body) for every
\* other status, and then no transform of the incoming pipeline is invoked.
C6_ExactlyOneCallback ==
    \A i \in DOMAIN xhrs :
        LET x == xhrs[i]
            body == ParsedOrUndefined(x.text)
            p == nodes[x.node].pipes[x.method]["in"]
        IN  (x.state = "loaded" /\ x.success /\ x.fail) =>
                /\ Len(x.cbs) = 1
                /\ IF x.status \in 200..299
                   THEN /\ x.cbs[1].name = "success"
                        /\ x.cbs[1].status = x.status
                        /\ RanInOrder(p, body, x.inCalls, x.cbs[1].data)
                   ELSE /\ x.cbs[1] = Callback("fail", x.status, body)
                        /\ x.inCalls = <<>>

\* C7: a request issued with both callbacks whose transport has signalled
\* completion, by load or by error, has had its success or its failure
\* callback invoked; a transport error is delivered through the failure
\* callback.  (A load whose listener threw is left to C6.)
C7_CompletionReachesCallback ==
    \A i \in DOMAIN xhrs :
        LET x == xhrs[i]
        IN  (x.success /\ x.fail) =>
                /\ (x.state = "loaded" /\ x.thrown = "none") => Len(x.cbs) = 1
                /\ x.state = "errored" =>
                        /\ Len(x.cbs) = 1
                        /\ x.cbs[1].name = "fail"

Shorthands == {"get", "post", "put", "delete"}

\* C8: a shorthand m called with a query, body and callbacks issues the
\* request that request(m, query, body, success, fail) issues: the same
\* error or the same xhr (URL, method, callbacks), and none of its own.
C8_ShorthandIsRequest ==
    out.op \in Shorthands =>
        LET r == request(nodes, execs, branches, out.b, out.op, out.arg.query,
                         out.arg.body, out.arg.success, out.arg.fail)
        IN  /\ out.err = r.err
            /\ r.err = "none" =>
                    /\ xhrs # <<>>
                    /\ <<xhrs[Len(xhrs)]>> = r.xhr

----------------------------------------------------------------------------
(* Configuring and compiling a tree *)

\* Endpoints are added, under any of TreeNames, until the tree is compiled.
NextTree ==
    \/ \E p \in 1..MaxNodes, name \in TreeNames : ~Compiled /\ Add(p, name)
    \/ \E n \in 1..MaxNodes : Compile(n)

SpecTree == Init /\ [][NextTree]_vars

\* name is in the list of children of node.
Registered(node, name) == \E i \in DOMAIN node.nodes : node.nodes[i] = name

\* No node lists a name twice, and each listed name is the property of a
\* child whose parent is the node.
C11_Tree ==
    \A p \in DOMAIN nodes :
        \A i \in DOMAIN nodes[p].nodes :
            LET c == nodes[p].child[nodes[p].nodes[i]]
            IN  /\ \A j \in DOMAIN nodes[p].nodes :
                        nodes[p].nodes[j] = nodes[p].nodes[i] => j = i
                /\ c \in DOMAIN nodes
                /\ nodes[c].parent = p

\* An add of a name the node has registered raises the duplicate-name error
\* and leaves every node as it was.
C11_Step ==
    (out'.op = "add" /\ Registered(nodes[out'.b], out'.arg)) =>
        /\ out'.err = "DuplicateName"
        /\ nodes' = nodes

ExecsOf(n) ==
    { e \in DOMAIN execs : execs[e].nodeIs = "Node" /\ execs[e].node = n }

\* The name under which node n is registered on its parent.
NameOf(n) ==
    CHOOSE name \in TreeNames : nodes[nodes[n].parent].child[name] = n

\* ExecNode p holds ExecNode e in its property name.
RegisteredOn(p, name, e) ==
    IF name = "node"
    THEN execs[p].nodeIs = "ExecNode" /\ execs[p].node = e
    ELSE execs[p].child[name] = e

\* C15: compile() on the root of a configuration tree returns with its work
\* queue empty, having created exactly one ExecNode for every node of the
\* tree; the ExecNode of a non-root node has the ExecNode of the node's
\* parent as parent and is registered on it under the child's name.
C15_CompileMirrorsTree ==
    (out.op = "compile" /\ out.err # "InvalidRoot") =>
        /\ out.err = "none"
        /\ out.arg = <<>>
        /\ Len(execs) = Len(nodes)
        /\ \A n \in DOMAIN nodes : Cardinality(ExecsOf(n)) = 1
        /\ \A n \in DOMAIN nodes :
                nodes[n].parent # 0 =>
                    \A e \in ExecsOf(n) :
                        /\ execs[e].parent \in ExecsOf(nodes[n].parent)
                        /\ RegisteredOn(execs[e].parent, NameOf(n), e)

----------------------------------------------------------------------------
(* Using a compiled tree whose configuration is still being extended *)

UserTree == Built(add(<<Node(<<"api">>, 0)>>, 1, "user", LocationFor("user")))

\* api.add("user", "user/{id}") has been compiled.
InitLate ==
    /\ nodes = UserTree
    /\ execs = compile(nodes, 1).execs
    /\ branches = <<Branch(nodes, execs, 1, 0)>>
    /\ api = branch(nodes, execs, 1, 1)
    /\ h = [s \in Seqs |-> NoValue]
    /\ given = [s \in Seqs |-> [b \in 1..MaxBranches |-> Null]]
    /\ out = NoOut
    /\ xhrs = <<>>

\* The configuration nodes stay reachable after compile, so add can still be
\* called on them while the compiled tree is used.
NextLate ==
    \/ \E p \in 1..MaxNodes, name \in Names : Add(p, name)
    \/ \E s \in Seqs : Start(s)
    \/ \E s \in Seqs : Call(s, Obj({<<"id", "5">>}))
    \/ \E s \in Seqs, name \in Names : Access(s, name)
    \/ \E s \in Seqs : Mount(s)
    \/ \E s \in Seqs : Request(s, "get", PlainGet)

SpecLate == InitLate /\ [][NextLate]_vars

\* The names of the compiled children of the exec branch b was made from.
CompiledChildren(b) ==
    { name \in Names : execs[branches[b].proto].child[name] # 0 }

BranchOps == {"start", "call", "access", "mount", "request"}

\* A branch operation leaves every Node and every ExecNode as it was, and
\* every branch but the one it calls or creates: a call changes the args of
\* the called branch only, an accessor read adds one branch.
C14_Step ==
    out'.op \in BranchOps =>
        /\ nodes' = nodes
        /\ execs' = execs
        /\ Len(branches') >= Len(branches)
        /\ \A b \in DOMAIN branches :
                IF out'.op = "call" /\ b = out'.b
                THEN branches'[b] = [branches[b] EXCEPT !.args = out'.arg]
                ELSE branches'[b] = branches[b]
        /\ Len(branches') > Len(branches) =>
                /\ out'.op = "access"
                /\ Len(branches') = Len(branches) + 1
                /\ out'.b = Len(branches')

\* C14: after compile no branch operation (accessor read, callable, mount,
\* request) changes a shared node: every ExecNode keeps its configuration,
\* parent and children, every configuration node its template, parameters,
\* headers, pipelines and children; only the branch created or called by
\* the operation changes.
C14_SharedNodesKept == [][C14_Step]_vars

\* A callable has stored its mapping on one of two branches of an ExecNode.
C14_Witness ==
    /\ out.op = "call"
    /\ \E b \in DOMAIN branches :
            /\ b # out.b
            /\ branches[b].proto = branches[out.b].proto
            /\ branches[b].args # branches[out.b].args
    /\ xhrs # <<>>

----------------------------------------------------------------------------
(* mount with a query mapping *)

QueryKeys == {"q", "page", ""}

QueryValues == {"a b", "5"}

\* The key-value pairs of the objects of at most n keys, in key order.
RECURSIVE Pairs(_)
Pairs(n) ==
    IF n = 0 THEN { <<>> }
    ELSE Pairs(n - 1) \cup
         { Append(kvs, <<k, v>>) :
             kvs \in { x \in Pairs(n - 1) : Len(x) = n - 1 },
             k \in QueryKeys, v \in QueryValues }

\* The values mount is passed: nothing, null, or an object with distinct keys.
Queries ==
    {Undefined, Null} \cup
    { Query(kvs) : kvs \in { x \in Pairs(MaxQuery) :
                                \A i, j \in DOMAIN x :
                                    x[i][1] = x[j][1] => i = j } }

\* value.mount(urlParams)
MountWith(s, urlParams) ==
    /\ h[s].kind # "none"
    /\ LET r == IF h[s].kind = "caller" THEN Throw("TypeError")
                ELSE mount(nodes, execs, branches, h[s].b, urlParams)
       IN  out' = [NoOut EXCEPT !.op = "mount", !.s = s, !.b = h[s].b,
                                !.err = r.err, !.url = r.val,
                                !.arg = urlParams]
    /\ UNCHANGED <<nodes, execs, api, branches, h, given, xhrs>>

NextQuery ==
    \/ \E s \in Seqs : Start(s)
    \/ \E s \in Seqs, args \in Mappings({"id"}) \cup {Undefined} : Call(s, args)
    \/ \E s \in Seqs, name \in Names : Access(s, name)
    \/ \E s \in Seqs, urlParams \in Queries : MountWith(s, urlParams)

SpecQuery == InitLate /\ [][NextQuery]_vars

\* The pairs k=encode(v) of kvs from position i on, joined by "&".
RECURSIVE JoinPairs(_, _)
JoinPairs(kvs, i) ==
    IF i > Len(kvs) THEN <<>>
    ELSE (IF i = 1 THEN <<>> ELSE <<"&">>)
            \o <<kvs[i][1], "=", encodeURIComponent(kvs[i][2])>>
            \o JoinPairs(kvs, i + 1)

\* C13: mount(urlParams) with a mapping of keys k1..kn (n >= 0) returns the
\* resolved path, then "?", then exactly the pairs ki=encode(vi) in key
\* order joined by "&"; mount with no mapping returns the resolved path.
C13_QueryPairs ==
    (out.op = "mount" /\ out.err = "none") =>
        LET path == mount(nodes, execs, branches, out.b, Undefined).val
        IN  out.url = IF out.arg.tag = "obj"
                      THEN path \o <<"?">> \o JoinPairs(out.arg.keys, 1)
                      ELSE path

============================================================================
